---- MODULE Spec2Model ----
(***************************************************************************)
(* A model of pymanopt's PoincareBall manifold                             *)
(* (src/pymanopt/manifolds/hyperbolic.py).                                 *)
(*                                                                         *)
(* Numbers.  The code computes in IEEE-754 double precision through NumPy. *)
(* The model computes every operation exactly, over the real numbers       *)
(* extended with the IEEE special values the code can produce: a division  *)
(* by zero gives +inf/-inf, 0/0 gives NaN, arctanh and arccosh outside     *)
(* their domain give NaN.  Rounding (and the sign of zero) is not          *)
(* modelled, so every equality below is the exact counterpart of an        *)
(* equality "up to floating-point tolerance".                              *)
(*                                                                         *)
(* A number is kept in closed form, a record with the fields               *)
(*   t      "rat" | "mon" | "sum" | "sqrt" | "inf" | "nan" | "unrep"       *)
(*   n, d   the rational coefficient n/d (d > 0, lowest terms)             *)
(*   f, an, ad, e   for "mon": the atom f(an/ad) and its exponent e, the   *)
(*          number being (n/d) * f(an/ad)^e, f one of "atanh" (0 < an/ad   *)
(*          < 1) and "acosh" (an/ad > 1), both positive                    *)
(*   terms  for "sum": the summands; for "sqrt": the summands under the    *)
(*          root                                                           *)
(* "unrep" is a real number the closed forms cannot express; calls whose   *)
(* result holds one are outside the model (see Representable).             *)
(***************************************************************************)
EXTENDS Integers, Sequences, FiniteSets, TLC

\* ------------------------------------------------------------------------
\* Integer helpers
\* ------------------------------------------------------------------------

AbsInt(i) == IF i < 0 THEN -i ELSE i

SignInt(i) == IF i < 0 THEN -1 ELSE IF i = 0 THEN 0 ELSE 1

RECURSIVE GCD(_, _)
GCD(a, b) == IF b = 0 THEN a ELSE GCD(b, a % b)

RECURSIVE IntPow(_, _)
IntPow(b, p) == IF p = 0 THEN 1 ELSE b * IntPow(b, p - 1)

\* min(b^p, cap + 1), computed without leaving 0..cap+1
RECURSIVE CappedPow(_, _, _)
CappedPow(b, p, cap) ==
    IF p = 0 THEN 1
    ELSE LET q == CappedPow(b, p - 1, cap)
         IN  IF b = 0 THEN 0
             ELSE IF q > cap \div b THEN cap + 1
             ELSE q * b

\* The largest r in lo..hi with r^p <= m, by bisection (lo^p <= m)
RECURSIVE FloorRoot(_, _, _, _)
FloorRoot(m, p, lo, hi) ==
    IF lo >= hi THEN lo
    ELSE LET mid == (lo + hi + 1) \div 2
         IN  IF CappedPow(mid, p, m) <= m
             THEN FloorRoot(m, p, mid, hi)
             ELSE FloorRoot(m, p, lo, mid - 1)

\* The exact p-th root of the natural number m, or -1 when m is no p-th power.
IntRoot(m, p) ==
    LET r == FloorRoot(m, p, 0, m)
    IN  IF CappedPow(r, p, m) = m THEN r ELSE -1

\* ------------------------------------------------------------------------
\* Numbers in closed form
\* ------------------------------------------------------------------------

Num(t, n, d, f, an, ad, e, terms) ==
    [t |-> t, n |-> n, d |-> d, f |-> f, an |-> an, ad |-> ad, e |-> e,
     terms |-> terms]

NaN == Num("nan", 0, 1, "", 0, 1, 0, <<>>)

Unrep == Num("unrep", 0, 1, "", 0, 1, 0, <<>>)

Inf(s) == Num("inf", s, 1, "", 0, 1, 0, <<>>)

\* The greatest common divisor, 1 for GCD(0, 0)
Divisor(a, b) == IF a = 0 /\ b = 0 THEN 1 ELSE GCD(AbsInt(a), AbsInt(b))

\* (n/d) * f(an/ad)^e for n/d in lowest terms, d > 0: a rational when there
\* is no atom left
Closed(n, d, f, an, ad, e) ==
    IF n = 0 THEN Num("rat", 0, 1, "", 0, 1, 0, <<>>)
    ELSE IF e = 0 \/ f = "" THEN Num("rat", n, d, "", 0, 1, 0, <<>>)
    ELSE Num("mon", n, d, f, an, ad, e, <<>>)

Reduced(n, d, g) == Closed(n \div g, d \div g, "", 0, 1, 0)

\* The rational n/d, d > 0
Rat(n, d) == Reduced(n, d, Divisor(n, d))

Zero == Num("rat", 0, 1, "", 0, 1, 0, <<>>)

One == Num("rat", 1, 1, "", 0, 1, 0, <<>>)

Two == Num("rat", 2, 1, "", 0, 1, 0, <<>>)

\* A rational, or a rational times a power of an atom
IsClosed(x) == x.t \in {"rat", "mon"}

IsZero(x) == x.t = "rat" /\ x.n = 0

\* The sign of a number: atoms and roots are positive.
Sign(x) ==
    IF x.t \in {"rat", "mon", "inf"} THEN SignInt(x.n)
    ELSE IF x.t = "sqrt" THEN 1 ELSE 0

\* Do x and y have the same atom, or one of them none?
Compatible(x, y) ==
    x.f = "" \/ y.f = "" \/ (x.f = y.f /\ x.an = y.an /\ x.ad = y.ad)

Neg(x) ==
    IF x.t \in {"rat", "mon", "inf"} THEN [x EXCEPT !.n = -x.n]
    ELSE IF x.t = "nan" THEN NaN ELSE Unrep

\* x * y for closed x and y, g1 = gcd(x.n, y.d) and g2 = gcd(y.n, x.d): the
\* coefficients are cross-reduced before they are multiplied
MulClosed(x, y, g1, g2) ==
    IF ~Compatible(x, y) THEN Unrep
    ELSE IF x.f = ""
    THEN Closed((x.n \div g1) * (y.n \div g2), (x.d \div g2) * (y.d \div g1),
                y.f, y.an, y.ad, x.e + y.e)
    ELSE Closed((x.n \div g1) * (y.n \div g2), (x.d \div g2) * (y.d \div g1),
                x.f, x.an, x.ad, x.e + y.e)

Mul(x, y) ==
    IF IsClosed(x) /\ IsClosed(y)
    THEN MulClosed(x, y, Divisor(x.n, y.d), Divisor(y.n, x.d))
    ELSE IF x.t = "unrep" \/ y.t = "unrep" THEN Unrep
    ELSE IF x.t = "nan" \/ y.t = "nan" THEN NaN
    ELSE IF x.t = "inf" \/ y.t = "inf"
    THEN IF IsZero(x) \/ IsZero(y) THEN NaN
         ELSE IF Sign(x) = 0 \/ Sign(y) = 0 THEN Unrep
         ELSE Inf(Sign(x) * Sign(y))
    ELSE Unrep

\* 1 / y for a closed non-zero y
Inv(y) ==
    IF y.n < 0 THEN [y EXCEPT !.n = -y.d, !.d = -y.n, !.e = -y.e]
    ELSE [y EXCEPT !.n = y.d, !.d = y.n, !.e = -y.e]

Div(x, y) ==
    IF x.t = "unrep" \/ y.t = "unrep" THEN Unrep
    ELSE IF x.t = "nan" \/ y.t = "nan" THEN NaN
    ELSE IF IsZero(y)
    THEN IF IsZero(x) THEN NaN
         ELSE IF Sign(x) = 0 THEN Unrep
         ELSE Inf(Sign(x))
    ELSE IF y.t = "inf" THEN IF x.t = "inf" THEN NaN ELSE Zero
    ELSE IF x.t = "inf"
    THEN IF Sign(y) = 0 THEN Unrep ELSE Inf(Sign(x) * Sign(y))
    ELSE IF IsClosed(x) /\ IsClosed(y) THEN Mul(x, Inv(y))
    ELSE Unrep

\* (n/d) times the atom of x, g = gcd(n, d)
WithAtom(n, d, g, x) == Closed(n \div g, d \div g, x.f, x.an, x.ad, x.e)

Reduced2(n, d, x) == WithAtom(n, d, Divisor(n, d), x)

\* x + y for closed x and y with the same atom and exponent, g = gcd(x.d, y.d)
AddClosed(x, y, g) ==
    Reduced2(x.n * (y.d \div g) + y.n * (x.d \div g), (x.d \div g) * y.d, x)

SumTerms(x) == IF x.t = "sum" THEN x.terms ELSE <<x>>

Add(x, y) ==
    IF x.t = "unrep" \/ y.t = "unrep" THEN Unrep
    ELSE IF x.t = "nan" \/ y.t = "nan" THEN NaN
    ELSE IF x.t = "inf" /\ y.t = "inf" THEN IF x.n = y.n THEN x ELSE NaN
    ELSE IF x.t = "inf" THEN x
    ELSE IF y.t = "inf" THEN y
    ELSE IF IsZero(x) THEN y
    ELSE IF IsZero(y) THEN x
    ELSE IF IsClosed(x) /\ IsClosed(y) /\ x.f = y.f /\ x.an = y.an
            /\ x.ad = y.ad /\ x.e = y.e
    THEN AddClosed(x, y, Divisor(x.d, y.d))
    ELSE IF x.t \in {"rat", "mon", "sum"} /\ y.t \in {"rat", "mon", "sum"}
    THEN Num("sum", 0, 1, "", 0, 1, 0, SumTerms(x) \o SumTerms(y))
    ELSE Unrep

Sub(x, y) == Add(x, Neg(y))

Square(x) == Mul(x, x)

\* x < y for two rationals
RatLt(x, y) == x.n * y.d < y.n * x.d

\* The root of the closed x >= 0, rn and rd the exact roots of its
\* numerator and denominator (-1 when there is none)
SqrtClosed(x, rn, rd) ==
    IF rn >= 0 /\ rd >= 0 /\ x.e % 2 = 0
    THEN Closed(rn, rd, x.f, x.an, x.ad, x.e \div 2)
    ELSE Num("sqrt", 0, 1, "", 0, 1, 0, <<x>>)

\* np.sqrt / the root in np.linalg.norm
Sqrt(x) ==
    IF IsClosed(x)
    THEN IF x.n < 0 THEN NaN
         ELSE SqrtClosed(x, IntRoot(x.n, 2), IntRoot(x.d, 2))
    ELSE IF x.t = "sum" THEN Num("sqrt", 0, 1, "", 0, 1, 0, x.terms)
    ELSE IF x.t = "inf" THEN IF x.n > 0 THEN x ELSE NaN
    ELSE IF x.t = "nan" THEN NaN
    ELSE Unrep

RootClosed(rn, rd) == IF rn >= 0 /\ rd >= 0 THEN Closed(rn, rd, "", 0, 1, 0) ELSE Unrep

\* x ** (1.0 / p) for the uniform sample x >= 0 of random_point
Root(x, p) ==
    IF x.t = "rat" /\ x.n >= 0 /\ p >= 1
    THEN RootClosed(IntRoot(x.n, p), IntRoot(x.d, p))
    ELSE IF x.t = "nan" THEN NaN ELSE Unrep

\* tanh(atanh(r) / 2) = (1 - s) / r with s = sqrt(1 - r^2), for a rational
\* r in (0, 1)
TanhHalf(r, s) == IF s.t = "rat" THEN Div(Sub(One, s), r) ELSE Unrep

\* tanh(c * atanh(r)) for c = 1 and c = 1/2
TanhAtanh(c, r) ==
    IF c.n = 1 /\ c.d = 1 THEN r
    ELSE IF c.n = 1 /\ c.d = 2 THEN TanhHalf(r, Sqrt(Sub(One, Square(r))))
    ELSE Unrep

\* np.tanh
Tanh(x) ==
    IF x.t = "nan" THEN NaN
    ELSE IF x.t = "inf" THEN Closed(x.n, 1, "", 0, 1, 0)
    ELSE IF IsZero(x) THEN Zero
    ELSE IF x.t = "mon" /\ x.f = "atanh" /\ x.e = 1 /\ x.n > 0
    THEN TanhAtanh(Closed(x.n, x.d, "", 0, 1, 0), Closed(x.an, x.ad, "", 0, 1, 0))
    ELSE IF x.t = "mon" /\ x.f = "atanh" /\ x.e = 1 /\ x.n < 0
    THEN Neg(TanhAtanh(Closed(-x.n, x.d, "", 0, 1, 0),
                       Closed(x.an, x.ad, "", 0, 1, 0)))
    ELSE Unrep

\* np.arctanh
ArcTanh(x) ==
    IF x.t = "nan" \/ x.t = "inf" THEN NaN
    ELSE IF x.t = "rat"
    THEN IF x.n = 0 THEN Zero
         ELSE IF AbsInt(x.n) < x.d
         THEN Closed(SignInt(x.n), 1, "atanh", AbsInt(x.n), x.d, 1)
         ELSE IF AbsInt(x.n) = x.d THEN Inf(SignInt(x.n))
         ELSE NaN
    ELSE Unrep

\* np.arccosh
ArcCosh(x) ==
    IF x.t = "nan" THEN NaN
    ELSE IF x.t = "inf" THEN IF x.n > 0 THEN x ELSE NaN
    ELSE IF x.t = "rat"
    THEN IF x.n < x.d THEN NaN
         ELSE IF x.n = x.d THEN Zero
         ELSE Closed(1, 1, "acosh", x.n, x.d, 1)
    ELSE Unrep

\* ------------------------------------------------------------------------
\* Arrays.  An array of shape (k,) or (k, n) is [nd, c]: nd its number of
\* dimensions and c its columns, c[j][i] the entry of row i in column j (one
\* column when nd = 1).  A reduction along axis 0 gives a row: one number per
\* column (a 0-d scalar when nd = 1), which broadcasts back over the rows.
\* ------------------------------------------------------------------------

Array(nd, c) == [nd |-> nd, c |-> c]

\* The sequence with the entries fn[1], ..., fn[Len(fn)], computed once
Eval(fn) == fn \o <<>>

\* a (op) b, element by element
Arr2(Op(_, _), a, b) ==
    Array(a.nd, Eval([j \in DOMAIN a.c |->
                    Eval([i \in DOMAIN a.c[j] |-> Op(a.c[j][i], b.c[j][i])])]))

\* a (op) row, the row broadcast over axis 0
ArrRow(Op(_, _), a, row) ==
    Array(a.nd, Eval([j \in DOMAIN a.c |->
                    Eval([i \in DOMAIN a.c[j] |-> Op(a.c[j][i], row[j])])]))

\* row (op) a, the row broadcast over axis 0
RowArr(Op(_, _), row, a) ==
    Array(a.nd, Eval([j \in DOMAIN a.c |->
                    Eval([i \in DOMAIN a.c[j] |-> Op(row[j], a.c[j][i])])]))

Row2(Op(_, _), r, s) == Eval([j \in DOMAIN r |-> Op(r[j], s[j])])

\* scalar (op) row
ScalarRow(Op(_, _), a, r) == Eval([j \in DOMAIN r |-> Op(a, r[j])])

Row1(Op(_), r) == Eval([j \in DOMAIN r |-> Op(r[j])])

\* -a
ArrNeg(a) ==
    Array(a.nd, Eval([j \in DOMAIN a.c |->
                    Eval([i \in DOMAIN a.c[j] |-> Neg(a.c[j][i])])]))

RECURSIVE SeqSum(_)
SeqSum(s) ==
    IF Len(s) = 0 THEN Zero
    ELSE Add(SeqSum(SubSeq(s, 1, Len(s) - 1)), s[Len(s)])

\* np.sum(a, axis=0)
np_sum_axis0(a) == Eval([j \in DOMAIN a.c |-> SeqSum(a.c[j])])

\* np.sum(a): the sum of all entries
np_sum(a) == SeqSum(np_sum_axis0(a))

\* np.linalg.norm(a, axis=0)
np_linalg_norm_axis0(a) == Row1(Sqrt, np_sum_axis0(Arr2(Mul, a, a)))

\* np.zeros_like(a)
np_zeros_like(a) ==
    Array(a.nd, Eval([j \in DOMAIN a.c |->
                    Eval([i \in DOMAIN a.c[j] |-> Zero])]))

\* np.divide without where: the division is made in every ball
np_divide_everywhere(num, den, like) ==
    Array(like.nd,
          Eval([j \in DOMAIN like.c |->
              Eval([i \in DOMAIN like.c[j] |-> Div(num[j], den[j])])]))

\* np.divide(num, den, out=np.zeros_like(like), where=den != 0): the rows num
\* and den broadcast to the shape of out; an entry of out is written only
\* where the condition holds and keeps its zero elsewhere.
np_divide_where(num, den, like) ==
    Array(like.nd,
          Eval([j \in DOMAIN like.c |->
              Eval([i \in DOMAIN like.c[j] |->
                  IF ~IsZero(den[j]) THEN Div(num[j], den[j]) ELSE Zero])]))

\* ------------------------------------------------------------------------
\* PoincareBall: the operations, as functions of their arguments
\* ------------------------------------------------------------------------

\* 2 / (1 + |x|^2)
conformal_factor_plus(point) ==
    ScalarRow(Div, Two,
              ScalarRow(Add, One, np_sum_axis0(Arr2(Mul, point, point))))

conformal_factor(point) ==
    ScalarRow(Div, Two,
              ScalarRow(Sub, One, np_sum_axis0(Arr2(Mul, point, point))))

inner_product(point, tangent_vector_a, tangent_vector_b) ==
    LET factors == Row1(Square, conformal_factor(point))
    IN  np_sum(ArrRow(Mul, Arr2(Mul, tangent_vector_a, tangent_vector_b),
                      factors))

projection(point, vector) == vector

norm(point, tangent_vector) ==
    Sqrt(inner_product(point, tangent_vector, tangent_vector))

\* random_point, given what the random source returned: array, the
\* np.random.normal sample (of shape (k,) when n = 1 and (k, n) otherwise),
\* and uniform, the np.random.uniform(size=n) sample
random_point(k, n, array, uniform) ==
    LET norms == np_linalg_norm_axis0(array)
        radiuses == Row1(LAMBDA u : Root(u, k), uniform)
    IN  ArrRow(Div, RowArr(Mul, radiuses, array), norms)

\* random_tangent_vector, given the np.random.normal sample of the shape of
\* point
random_tangent_vector(point, sample) == sample

zero_vector(point) == np_zeros_like(point)

\* dist with (1 - |a|^2)^2 for (1 - |a|^2) * (1 - |b|^2)
dist_from_first(point_a, point_b) ==
    LET norms2_point_a == np_sum_axis0(Arr2(Mul, point_a, point_a))
        difference == Arr2(Sub, point_a, point_b)
        norms2_difference == np_sum_axis0(Arr2(Mul, difference, difference))
        columns_dist ==
            Row1(ArcCosh,
                 ScalarRow(Add, One,
                     Row2(Div, ScalarRow(Mul, Two, norms2_difference),
                          Row1(Square, ScalarRow(Sub, One, norms2_point_a)))))
    IN  Sqrt(SeqSum(Row1(Square, columns_dist)))

dist(point_a, point_b) ==
    LET norms2_point_a == np_sum_axis0(Arr2(Mul, point_a, point_a))
        norms2_point_b == np_sum_axis0(Arr2(Mul, point_b, point_b))
        difference == Arr2(Sub, point_a, point_b)
        norms2_difference == np_sum_axis0(Arr2(Mul, difference, difference))
        columns_dist ==
            Row1(ArcCosh,
                 ScalarRow(Add, One,
                     Row2(Div, ScalarRow(Mul, Two, norms2_difference),
                          Row2(Mul, ScalarRow(Sub, One, norms2_point_a),
                               ScalarRow(Sub, One, norms2_point_b)))))
    IN  Sqrt(SeqSum(Row1(Square, columns_dist)))

\* The gradient divided by the conformal factor, not by its square
euclidean_to_riemannian_gradient_unsquared(point, euclidean_gradient) ==
    ArrRow(Mul, euclidean_gradient,
           ScalarRow(Div, One, conformal_factor(point)))

euclidean_to_riemannian_gradient(point, euclidean_gradient) ==
    LET factors ==
            ScalarRow(Div, One,
                      Row1(Square, conformal_factor(point)))
    IN  ArrRow(Mul, euclidean_gradient, factors)

euclidean_to_riemannian_hessian(point, euclidean_gradient, euclidean_hessian, tangent_vector) ==
    LET lambda_x == conformal_factor(point)
        t1 == RowArr(Mul, np_sum_axis0(Arr2(Mul, euclidean_gradient, point)),
                     tangent_vector)
        t2 == RowArr(Mul, np_sum_axis0(Arr2(Mul, point, tangent_vector)),
                     euclidean_gradient)
        t3 == RowArr(Mul,
                     np_sum_axis0(Arr2(Mul, euclidean_gradient, tangent_vector)),
                     point)
        t4 == ArrRow(Div, euclidean_hessian, lambda_x)
    IN  ArrRow(Div, Arr2(Add, Arr2(Sub, Arr2(Sub, t1, t2), t3), t4), lambda_x)

\* 1 + scalar_product + norm_point_a * norm_point_b
mobius_denominator_single(point_a, point_b) ==
    Row2(Add,
         ScalarRow(Add, One, np_sum_axis0(Arr2(Mul, point_a, point_b))),
         Row2(Mul, np_sum_axis0(Arr2(Mul, point_a, point_a)),
              np_sum_axis0(Arr2(Mul, point_b, point_b))))

\* The divisor of mobius_addition, one entry per ball:
\* 1 + 2 * scalar_product + norm_point_a * norm_point_b
mobius_denominator(point_a, point_b) ==
    Row2(Add,
         ScalarRow(Add, One,
                   ScalarRow(Mul, Two, np_sum_axis0(Arr2(Mul, point_a, point_b)))),
         Row2(Mul, np_sum_axis0(Arr2(Mul, point_a, point_a)),
              np_sum_axis0(Arr2(Mul, point_b, point_b))))

mobius_addition(point_a, point_b) ==
    LET scalar_product == np_sum_axis0(Arr2(Mul, point_a, point_b))
        norm_point_a == np_sum_axis0(Arr2(Mul, point_a, point_a))
        norm_point_b == np_sum_axis0(Arr2(Mul, point_b, point_b))
    IN  ArrRow(Div,
               Arr2(Add,
                    ArrRow(Mul, point_a,
                           Row2(Add,
                                ScalarRow(Add, One,
                                          ScalarRow(Mul, Two, scalar_product)),
                                norm_point_b)),
                    ArrRow(Mul, point_b, ScalarRow(Sub, One, norm_point_a))),
               mobius_denominator(point_a, point_b))

\* The displacement W of exp
exp_W(point, tangent_vector) ==
    LET norm_point == np_linalg_norm_axis0(tangent_vector)
    IN  Arr2(Mul, tangent_vector,
             np_divide_where(
                 Row1(Tanh,
                      Row2(Div, norm_point,
                           ScalarRow(Sub, One,
                               np_sum_axis0(Arr2(Mul, point, point))))),
                 norm_point, tangent_vector))

exp(point, tangent_vector) ==
    mobius_addition(point, exp_W(point, tangent_vector))

retraction(point, tangent_vector) == exp(point, tangent_vector)

log(point_a, point_b) ==
    LET W == mobius_addition(ArrNeg(point_a), point_b)
        norm_W == np_linalg_norm_axis0(W)
    IN  ArrRow(Div,
               RowArr(Mul,
                      Row2(Mul,
                           ScalarRow(Sub, One,
                               np_sum_axis0(Arr2(Mul, point_a, point_a))),
                           Row1(ArcTanh, norm_W)),
                      W),
               norm_W)

pair_mean(point_a, point_b) ==
    exp(point_a, ArrRow(Div, log(point_a, point_b), Eval([j \in DOMAIN point_a.c |-> Two])))

\* ------------------------------------------------------------------------
\* Bounds and inputs
\* ------------------------------------------------------------------------

\* The largest ball dimension k and the largest number n of product copies
MaxK == 2

MaxN == 2

\* The arguments the constructor is called with: invalid ones included
ConstructorArgs == (-1) .. MaxK

ConstructorArgsN == (-1) .. MaxN

Shape(k, n, cols) == Array(IF n = 1 THEN 1 ELSE 2, cols)

\* The columns points are built from: the origin, a point on the first axis,
\* one on the last axis and one off the axes, all inside the unit ball
PointCols(k) ==
    { [i \in 1..k |-> Zero],
      [i \in 1..k |-> IF i = 1 THEN Rat(1, 2) ELSE Zero],
      [i \in 1..k |-> IF i = k THEN Rat(-3, 5) ELSE Zero],
      [i \in 1..k |-> IF i = 1 THEN Rat(3, 10)
                      ELSE IF i = 2 THEN Rat(2, 5) ELSE Zero] }

\* Is every column of x strictly inside the unit ball?
IsPoint(x) ==
    \A j \in DOMAIN x.c :
        LET n2 == SeqSum([i \in DOMAIN x.c[j] |-> Mul(x.c[j][i], x.c[j][i])])
        IN  n2.t = "rat" /\ RatLt(n2, One)

Points(k, n) == { Shape(k, n, c) : c \in [1..n -> PointCols(k)] }

\* The columns of ambient vectors (gradients, Hessians, tangent vectors)
VectorCols(k) ==
    { [i \in 1..k |-> Zero],
      [i \in 1..k |-> IF i = 1 THEN One ELSE Zero],
      [i \in 1..k |-> IF i = k THEN Rat(-2, 1) ELSE Rat(1, 2)] }

Vectors(k, n) == { Shape(k, n, c) : c \in [1..n -> VectorCols(k)] }

\* The vectors with the same column in every ball
UniformVectors(k, n) == { Shape(k, n, [j \in 1..n |-> c]) : c \in VectorCols(k) }

\* Unit directions of R^k with rational entries
Directions(k) ==
    { [i \in 1..k |-> IF i = 1 THEN One ELSE Zero],
      [i \in 1..k |-> IF k = 1 THEN Rat(-1, 1)
                      ELSE IF i = 1 THEN Rat(3, 5)
                      ELSE IF i = 2 THEN Rat(4, 5) ELSE Zero] }

\* The columns of the tangent vectors exp is called with at a point whose
\* column is xcol: zero, and (1 - |xcol|^2) * atanh(r) * u for a unit
\* direction u, the vectors whose exponential has rational entries
GeodesicCols(k, xcol) ==
    LET n2 == SeqSum([i \in 1..k |-> Mul(xcol[i], xcol[i])])
        len(r) == Mul(Sub(One, n2), ArcTanh(r))
    IN  { [i \in 1..k |-> Zero] }
        \cup { [i \in 1..k |-> Mul(len(Rat(1, 2)), u[i])] : u \in Directions(k) }
        \cup { [i \in 1..k |-> Mul(len(Rat(3, 5)), u[i])] :
                 u \in { [i \in 1..k |-> IF i = k THEN Rat(-1, 1) ELSE Zero] } }

GeodesicVectors(k, n, point) ==
    { Shape(k, n, c) :
        c \in { f \in [1..n -> UNION { GeodesicCols(k, point.c[j]) : j \in 1..n }] :
                  \A j \in 1..n : f[j] \in GeodesicCols(k, point.c[j]) } }

\* What np.random.normal can return, column by column: the zero vector
\* included
NormalCols(k) ==
    { [i \in 1..k |-> Zero],
      [i \in 1..k |-> IF i = 1 THEN Rat(2, 1) ELSE Zero],
      [i \in 1..k |-> IF i = 1 THEN Rat(-3, 1)
                      ELSE IF i = 2 THEN Rat(4, 1) ELSE Zero] }

NormalSamples(k, n) == { Shape(k, n, c) : c \in [1..n -> NormalCols(k)] }

\* What np.random.uniform can return, in [0, 1): k-th powers, so that the
\* radius is rational
UniformValues(k) ==
    { Zero, Rat(1, IntPow(2, k)), Rat(IntPow(9, k), IntPow(10, k)) }

UniformSamples(k, n) == [1..n -> UniformValues(k)]

\* Can the closed forms express every entry of the array a?
Representable(a) ==
    \A j \in DOMAIN a.c : \A i \in DOMAIN a.c[j] : a.c[j][i].t # "unrep"

\* ------------------------------------------------------------------------
\* State
\* ------------------------------------------------------------------------

VARIABLES
    pc,        \* "start" | "failed" | "idle" | "called" | "returned"
    given,     \* the arguments <<k, n>> the constructor was called with
    manifold,  \* the constructed instance: its _k, _n, name and dimension
    raised,    \* the message of the ValueError the constructor raised, or ""
    call,      \* the operation called and the arrays the caller passed
    result,    \* what the operation returned
    rng,       \* what the random source returned during the call
    scope,     \* the caller's arrays: "wide", or "narrow" (the same column
               \* in every ball)
    memo       \* a call the caller remembers with its result, and whether
               \* another call was made since

vars == <<pc, given, manifold, raised, call, result, rng, scope, memo>>

NoManifold == [k |-> 0, n |-> 0, name |-> "", dimension |-> 0]

NoCall == [op |-> "", args |-> <<>>]

NoResult == <<>>

NoDraw == <<>>

NoMemo == [call |-> NoCall, result |-> NoResult, between |-> FALSE]

Init ==
    /\ pc = "start"
    /\ scope = "wide"
    /\ memo = NoMemo
    /\ given = <<>>
    /\ manifold = NoManifold
    /\ raised = ""
    /\ call = NoCall
    /\ result = NoResult
    /\ rng = NoDraw

\* The constructor with n checked before k
Construct_n_first(k, n) ==
    /\ pc = "start"
    /\ given' = <<k, n>>
    /\ IF n < 1
       THEN /\ raised' = "Need n >= 1. Value given was n = " \o ToString(n)
            /\ manifold' = NoManifold
            /\ pc' = "failed"
       ELSE IF k < 1
       THEN /\ raised' = "Need k >= 1. Value given was k = " \o ToString(k)
            /\ manifold' = NoManifold
            /\ pc' = "failed"
       ELSE /\ raised' = ""
            /\ manifold' = [k |-> k, n |-> n, name |-> "", dimension |-> k * n]
            /\ pc' = "idle"
    /\ UNCHANGED <<call, result, rng, scope, memo>>

\* PoincareBall(k, n)
Construct(k, n) ==
    /\ pc = "start"
    /\ given' = <<k, n>>
    /\ IF k < 1
       THEN /\ raised' = "Need k >= 1. Value given was k = " \o ToString(k)
            /\ manifold' = NoManifold
            /\ pc' = "failed"
       ELSE IF n < 1
       THEN /\ raised' = "Need n >= 1. Value given was n = " \o ToString(n)
            /\ manifold' = NoManifold
            /\ pc' = "failed"
       ELSE /\ raised' = ""
            /\ manifold' =
                  [k |-> k, n |-> n,
                   name |-> IF n = 1
                            THEN "Poincare ball B(" \o ToString(k) \o ")"
                            ELSE "Poincare ball B(" \o ToString(k) \o ")^"
                                 \o ToString(n),
                   dimension |-> k * n]
            /\ pc' = "idle"
    /\ UNCHANGED <<call, result, rng, scope, memo>>

\* manifold.typical_dist
typical_dist(self) == Rat(self.dimension, 8)

\* The caller passes arrays to an operation of the manifold.
Invoke(op, args) ==
    /\ pc = "idle"
    /\ call' = [op |-> op, args |-> args]
    /\ pc' = "called"
    /\ memo' = IF memo = NoMemo \/ memo.call = call'
               THEN memo ELSE [memo EXCEPT !.between = TRUE]
    /\ UNCHANGED <<given, manifold, raised, result, rng, scope>>

\* The arrays of S the caller passes
Args(S) ==
    IF scope = "wide" THEN S
    ELSE { a \in S : \A j \in DOMAIN a.c : a.c[j] = a.c[1] }

K == manifold.k

N == manifold.n

CallNullary ==
    /\ pc = "idle"
    /\ \E op \in {"typical_dist", "random_point"} : Invoke(op, <<>>)

CallPoint ==
    /\ pc = "idle"
    /\ \E op \in {"zero_vector", "conformal_factor", "random_tangent_vector"} :
        \E point \in Args(Points(K, N)) : Invoke(op, <<point>>)

CallPointPoint ==
    /\ pc = "idle"
    /\ \E op \in {"dist", "mobius_addition"} :
        \E point_a \in Args(Points(K, N)), point_b \in Args(Points(K, N)) :
            Invoke(op, <<point_a, point_b>>)

\* log and pair_mean, where the closed forms express the result
CallLog ==
    /\ pc = "idle"
    /\ \E op \in {"log", "pair_mean"} :
        \E point_a \in Args(Points(K, N)), point_b \in Args(Points(K, N)) :
            /\ Representable(IF op = "log" THEN log(point_a, point_b)
                             ELSE pair_mean(point_a, point_b))
            /\ Invoke(op, <<point_a, point_b>>)

CallPointVector ==
    /\ pc = "idle"
    /\ \E op \in {"projection", "norm", "euclidean_to_riemannian_gradient"} :
        \E point \in Args(Points(K, N)), vector \in Args(Vectors(K, N)) :
            Invoke(op, <<point, vector>>)

CallExp ==
    /\ pc = "idle"
    /\ \E op \in {"exp", "retraction"} :
        \E point \in Args(Points(K, N)) :
            \E tangent_vector \in Args(GeodesicVectors(K, N, point)) :
                Invoke(op, <<point, tangent_vector>>)

CallInnerProduct ==
    /\ pc = "idle"
    /\ \E point \in Args(Points(K, N)), tangent_vector_a \in Args(Vectors(K, N)),
       tangent_vector_b \in Args(UniformVectors(K, N)) :
        Invoke("inner_product", <<point, tangent_vector_a, tangent_vector_b>>)

CallHessian ==
    /\ pc = "idle"
    /\ \E point \in Args(Points(K, N)), euclidean_gradient \in Args(UniformVectors(K, N)),
       euclidean_hessian \in Args(UniformVectors(K, N)),
       tangent_vector \in Args(UniformVectors(K, N)) :
        Invoke("euclidean_to_riemannian_hessian",
               <<point, euclidean_gradient, euclidean_hessian, tangent_vector>>)

\* An operation that writes its result into its first argument
Return_in_place(op, value, draw) ==
    /\ pc = "called"
    /\ call.op = op
    /\ result' = value
    /\ rng' = draw
    /\ pc' = "returned"
    /\ call' = IF call.args = <<>> THEN call
               ELSE [call EXCEPT !.args[1] = value]
    /\ UNCHANGED <<given, manifold, raised, scope, memo>>

\* The operation returns: the caller's arrays are as the operation left them.
Return(op, value, draw) ==
    /\ pc = "called"
    /\ call.op = op
    /\ result' = value
    /\ rng' = draw
    /\ pc' = "returned"
    /\ UNCHANGED <<given, manifold, raised, call, scope, memo>>

TypicalDist ==
    /\ pc = "called"
    /\ call.op = "typical_dist"
    /\ Return("typical_dist", typical_dist(manifold), NoDraw)

InnerProduct ==
    /\ pc = "called"
    /\ call.op = "inner_product"
    /\ Return("inner_product",
              inner_product(call.args[1], call.args[2], call.args[3]), NoDraw)

Projection ==
    /\ pc = "called"
    /\ call.op = "projection"
    /\ Return("projection", projection(call.args[1], call.args[2]), NoDraw)

Norm ==
    /\ pc = "called"
    /\ call.op = "norm"
    /\ Return("norm", norm(call.args[1], call.args[2]), NoDraw)

RandomPoint ==
    /\ pc = "called"
    /\ call.op = "random_point"
    /\ \E array \in Args(NormalSamples(K, N)), uniform \in UniformSamples(K, N) :
          Return("random_point", random_point(K, N, array, uniform),
                 [array |-> array, uniform |-> uniform])

RandomTangentVector ==
    /\ pc = "called"
    /\ call.op = "random_tangent_vector"
    /\ \E sample \in Args(NormalSamples(K, N)) :
          Return("random_tangent_vector",
                 random_tangent_vector(call.args[1], sample),
                 [array |-> sample, uniform |-> <<>>])

ZeroVector ==
    /\ pc = "called"
    /\ call.op = "zero_vector"
    /\ Return("zero_vector", zero_vector(call.args[1]), NoDraw)

Dist ==
    /\ pc = "called"
    /\ call.op = "dist"
    /\ Return("dist", dist(call.args[1], call.args[2]), NoDraw)

EuclideanToRiemannianGradient ==
    /\ pc = "called"
    /\ call.op = "euclidean_to_riemannian_gradient"
    /\ Return("euclidean_to_riemannian_gradient",
              euclidean_to_riemannian_gradient(call.args[1], call.args[2]),
              NoDraw)

EuclideanToRiemannianHessian ==
    /\ pc = "called"
    /\ call.op = "euclidean_to_riemannian_hessian"
    /\ Return("euclidean_to_riemannian_hessian",
              euclidean_to_riemannian_hessian(call.args[1], call.args[2],
                                              call.args[3], call.args[4]),
              NoDraw)

Exp ==
    /\ pc = "called"
    /\ call.op = "exp"
    /\ Return("exp", exp(call.args[1], call.args[2]), NoDraw)

Retraction ==
    /\ pc = "called"
    /\ call.op = "retraction"
    /\ Return("retraction", retraction(call.args[1], call.args[2]), NoDraw)

Log ==
    /\ pc = "called"
    /\ call.op = "log"
    /\ Return("log", log(call.args[1], call.args[2]), NoDraw)

PairMean ==
    /\ pc = "called"
    /\ call.op = "pair_mean"
    /\ Return("pair_mean", pair_mean(call.args[1], call.args[2]), NoDraw)

MobiusAddition ==
    /\ pc = "called"
    /\ call.op = "mobius_addition"
    /\ Return("mobius_addition", mobius_addition(call.args[1], call.args[2]),
              NoDraw)

ConformalFactor ==
    /\ pc = "called"
    /\ call.op = "conformal_factor"
    /\ Return("conformal_factor", conformal_factor(call.args[1]), NoDraw)

\* The caller takes the result and is free to call again.
Resume ==
    /\ pc = "returned"
    /\ pc' = "idle"
    /\ call' = NoCall
    /\ result' = NoResult
    /\ rng' = NoDraw
    /\ UNCHANGED <<given, manifold, raised, scope, memo>>

Next ==
    \/ \E k \in ConstructorArgs, n \in ConstructorArgsN : Construct(k, n)
    \/ CallNullary
    \/ CallPoint
    \/ CallPointPoint
    \/ CallLog
    \/ CallPointVector
    \/ CallExp
    \/ CallInnerProduct
    \/ CallHessian
    \/ TypicalDist
    \/ InnerProduct
    \/ Projection
    \/ Norm
    \/ RandomPoint
    \/ RandomTangentVector
    \/ ZeroVector
    \/ Dist
    \/ EuclideanToRiemannianGradient
    \/ EuclideanToRiemannianHessian
    \/ Exp
    \/ Retraction
    \/ Log
    \/ PairMean
    \/ MobiusAddition
    \/ ConformalFactor
    \/ Resume

Spec == Init /\ [][Next]_vars

\* ------------------------------------------------------------------------
\* A caller that repeats a call
\* ------------------------------------------------------------------------

\* The array of shape (k,) or (k, n) with the column col in every ball
Same(k, n, col) == Shape(k, n, [j \in 1..n |-> col])

\* The calls the caller remembers: one of each operation that draws no sample
Probes(k, n) ==
    LET O == Same(k, n, [i \in 1..k |-> Zero])
        P == Same(k, n, [i \in 1..k |-> IF i = 1 THEN Rat(1, 2) ELSE Zero])
        Q == Same(k, n, [i \in 1..k |-> IF i = k THEN Rat(-3, 5) ELSE Zero])
        V == Same(k, n, [i \in 1..k |-> IF i = 1 THEN One ELSE Zero])
        G == Same(k, n, [i \in 1..k |-> IF i = 1 THEN ArcTanh(Rat(1, 2))
                                        ELSE Zero])
    IN  { [op |-> "typical_dist", args |-> <<>>],
          [op |-> "conformal_factor", args |-> <<P>>],
          [op |-> "zero_vector", args |-> <<P>>],
          [op |-> "dist", args |-> <<P, Q>>],
          [op |-> "mobius_addition", args |-> <<P, Q>>],
          [op |-> "log", args |-> <<O, P>>],
          [op |-> "pair_mean", args |-> <<O, Q>>],
          [op |-> "projection", args |-> <<P, V>>],
          [op |-> "norm", args |-> <<P, V>>],
          [op |-> "euclidean_to_riemannian_gradient", args |-> <<P, V>>],
          [op |-> "inner_product", args |-> <<P, V, V>>],
          [op |-> "euclidean_to_riemannian_hessian", args |-> <<P, V, V, V>>],
          [op |-> "exp", args |-> <<O, G>>],
          [op |-> "retraction", args |-> <<O, G>>] }

\* The caller takes the result and keeps it, with the call, for later.
Remember ==
    /\ pc = "returned"
    /\ memo = NoMemo
    /\ call \in Probes(K, N)
    /\ memo' = [call |-> call, result |-> result, between |-> FALSE]
    /\ pc' = "idle"
    /\ call' = NoCall
    /\ result' = NoResult
    /\ rng' = NoDraw
    /\ UNCHANGED <<given, manifold, raised, scope>>

InitPure ==
    /\ pc = "start"
    /\ scope = "narrow"
    /\ memo = NoMemo
    /\ given = <<>>
    /\ manifold = NoManifold
    /\ raised = ""
    /\ call = NoCall
    /\ result = NoResult
    /\ rng = NoDraw

NextPure ==
    \/ Next
    \/ Remember

SpecPure == InitPure /\ [][NextPure]_vars

\* ------------------------------------------------------------------------
\* Properties
\* ------------------------------------------------------------------------

\* The operation op has returned and the caller has not resumed yet
Returned(op) == pc = "returned" /\ call.op = op

\* Is column j of the array a zero in every entry?
ZeroColumn(a, j) == \A i \in DOMAIN a.c[j] : a.c[j][i] = Zero

\* The squared Euclidean norm of column j of the array a
Norm2(a, j) == np_sum_axis0(Arr2(Mul, a, a))[j]

\* C1: the logarithm of a point at itself is the zero tangent vector,
\* log(p, p) = zero_vector(p), with no NaN in any column, the origin included.
C1_LogAtSamePointIsZero ==
    (Returned("log") /\ call.args[1] = call.args[2])
        => result = zero_vector(call.args[1])

\* C2: the constructor checks k before n; an argument below 1 raises a
\* ValueError that names the parameter and its value and no instance exists;
\* otherwise the instance has dimension k * n.
C2_ConstructorValidation ==
    pc # "start" =>
        /\ given[1] < 1 =>
              /\ pc = "failed"
              /\ manifold = NoManifold
              /\ raised = "Need k >= 1. Value given was k = "
                              \o ToString(given[1])
        /\ (given[1] >= 1 /\ given[2] < 1) =>
              /\ pc = "failed"
              /\ manifold = NoManifold
              /\ raised = "Need n >= 1. Value given was n = "
                              \o ToString(given[2])
        /\ (given[1] >= 1 /\ given[2] >= 1) =>
              /\ pc # "failed"
              /\ raised = ""
              /\ manifold.k = given[1]
              /\ manifold.n = given[2]
              /\ manifold.dimension = given[1] * given[2]

\* Both arguments are invalid and the error is about k
C2_BothInvalid ==
    /\ pc = "failed"
    /\ given[1] < 1
    /\ given[2] < 1
    /\ raised = "Need k >= 1. Value given was k = " \o ToString(given[1])

\* C3: exp(p, 0) = p; on a product manifold every column of the tangent
\* vector with zero norm gets the displacement W = 0 and leaves its column of
\* the point where it is, whatever the other columns are.
C3_ExpOfZeroColumns ==
    Returned("exp") =>
        /\ \A j \in DOMAIN call.args[2].c :
              ZeroColumn(call.args[2], j) =>
                  /\ ZeroColumn(exp_W(call.args[1], call.args[2]), j)
                  /\ result.c[j] = call.args[1].c[j]
        /\ call.args[2] = zero_vector(call.args[1]) => result = call.args[1]

\* exp has returned on a product manifold for a tangent vector with a zero
\* column next to a non-zero one, at a point that is not the origin
C3_MixedColumns ==
    /\ Returned("exp")
    /\ N = 2
    /\ ZeroColumn(call.args[2], 1)
    /\ ~ZeroColumn(call.args[2], 2)
    /\ ~ZeroColumn(call.args[1], 1)
    /\ result.c[1] = call.args[1].c[1]
    /\ result.c[2] # call.args[1].c[2]

\* C4: exp and log are inverse to each other, log(p, exp(p, v)) = v and
\* exp(p, log(p, q)) = q, and Moebius addition cancels on the left,
\* (-p) + (p + w) = w.
C4_ExpLogRoundTrip ==
    /\ Returned("exp") =>
          log(call.args[1], result) = call.args[2]
    /\ Returned("log") =>
          exp(call.args[1], result) = call.args[2]
    /\ Returned("mobius_addition") =>
          mobius_addition(ArrNeg(call.args[1]), result) = call.args[2]

\* C5: dist is symmetric and is zero from a point to itself, on one ball and
\* on a product of balls.
C5_DistSymmetric ==
    Returned("dist") =>
        /\ result = dist(call.args[2], call.args[1])
        /\ call.args[1] = call.args[2] => result = Zero

\* dist has returned a non-zero distance between two points of a product
\* manifold that differ in every ball
C5_ProductDistance ==
    /\ Returned("dist")
    /\ N = 2
    /\ \A j \in 1..N : call.args[1].c[j] # call.args[2].c[j]
    /\ ~ZeroColumn(call.args[1], 1)
    /\ result # Zero
    /\ result.t \notin {"nan", "inf", "unrep"}

\* C6: Moebius addition is closed in the open unit ball: the sum of two
\* points has norm below 1 in every ball, its divisor is never zero, and so
\* exp(x, v) is a point of the manifold.
C6_MobiusClosed ==
    /\ Returned("mobius_addition") =>
          /\ IsPoint(result)
          /\ \A j \in DOMAIN result.c :
                LET den == mobius_denominator(call.args[1], call.args[2])[j]
                IN  den.t = "rat" /\ den.n # 0
    /\ Returned("exp") => IsPoint(result)

\* mobius_addition has returned for two points of a product manifold, both
\* away from the origin in every ball
C6_SumAwayFromOrigin ==
    /\ Returned("mobius_addition")
    /\ N = 2
    /\ \A j \in 1..N :
          ~ZeroColumn(call.args[1], j) /\ ~ZeroColumn(call.args[2], j)
    /\ IsPoint(result)

\* C7: random_point returns, for every draw, an array of shape (k) when
\* n = 1 and (k, n) otherwise, each column the normalized direction times
\* the radius U^(1/k), hence of norm below 1.
C7_RandomPointInBall ==
    Returned("random_point") =>
        /\ result.nd = IF N = 1 THEN 1 ELSE 2
        /\ DOMAIN result.c = 1..N
        /\ \A j \in 1..N :
              /\ DOMAIN result.c[j] = 1..K
              /\ \A i \in 1..K :
                    result.c[j][i] =
                        Mul(Root(rng.uniform[j], K),
                            Div(rng.array.c[j][i], Sqrt(Norm2(rng.array, j))))
        /\ IsPoint(result)

\* C8: the conformal factor is finite and strictly greater than 2 at every
\* point of the manifold, the origin included.
C8_ConformalFactorAboveTwo ==
    Returned("conformal_factor") =>
        \A j \in DOMAIN result : result[j].t = "rat" /\ RatLt(Two, result[j])

\* C8, amended: the conformal factor is finite and at least 2 at every
\* point, and is 2 exactly in the balls where the point is the origin.
C8_ConformalFactorAtLeastTwo ==
    Returned("conformal_factor") =>
        \A j \in DOMAIN result :
            /\ result[j].t = "rat"
            /\ ~RatLt(result[j], Two)
            /\ result[j] = Two <=> ZeroColumn(call.args[1], j)

\* conformal_factor has returned at a point that is the origin in one ball
\* and not in the other
C8_OriginAndOther ==
    /\ Returned("conformal_factor")
    /\ N = 2
    /\ ZeroColumn(call.args[1], 1)
    /\ ~ZeroColumn(call.args[1], 2)
    /\ result[1] = Two
    /\ RatLt(Two, result[2])

====
